---- MODULE Spec2Model ----
(***************************************************************************)
(* ECHO collective-memory backend (src/backend/main.py).                   *)
(*                                                                         *)
(* The model covers the two algorithmic parts of the backend:              *)
(*   - summarize_with_gemini: turning the text returned by the analysis    *)
(*     service into the summary stored with a node;                        *)
(*   - add_source / get_nodes: the node list with its id counter and the   *)
(*     relatedness edges recomputed on every read.                         *)
(*                                                                         *)
(* Python strings are sequences of one-character strings, so that find,    *)
(* rfind, slicing, strip and json.loads are computed character by          *)
(* character.  Source texts and analysis responses are over the alphabet   *)
(*   { } [ ] " : ,  a-z  _  and the whitespace characters                  *)
(*   space, tab, line feed, carriage return, form feed                     *)
(* (no backslash, no digit, no sign, no dot, no capital letter, no other   *)
(* control or whitespace character), so a response holds no JSON number.   *)
(* Responses nest objects and arrays at most 20 deep.  On these texts      *)
(* json_loads below accepts what json.loads accepts and builds the same    *)
(* value, and JSONDecodeError is the only exception json.loads raises.     *)
(*                                                                         *)
(* Outside the model: a response nested close to the recursion limit of    *)
(* the interpreter (1000 by default).  There json.loads (line 122),        *)
(* json.dump (line 48) and json.load (line 42) raise RecursionError, each  *)
(* from a depth of its own that depends on the interpreter and on the      *)
(* frames in use at the call: summarize_with_gemini then returns the       *)
(* failure summary, or add_source ends in HTTP 500 with database.json      *)
(* truncated, or the node is saved and every later request ends in         *)
(* HTTP 500.  Reads and writes of database.json are taken to succeed.      *)
(***************************************************************************)
EXTENDS Integers, Sequences, FiniteSets, TLC

\* ------------------------------------------------------------------------
\* String literals of the program, as character sequences
\* ------------------------------------------------------------------------
\* "key_concepts"
K_key_concepts ==
  <<"k","e","y","_","c","o","n","c","e","p","t","s">>
\* "methods_used"
K_methods_used ==
  <<"m","e","t","h","o","d","s","_","u","s","e","d">>
\* "related_topics"
K_related_topics ==
  <<"r","e","l","a","t","e","d","_","t","o","p","i","c","s">>
\* "insights"
K_insights ==
  <<"i","n","s","i","g","h","t","s">>
\* "content analysis"
S_content_analysis ==
  <<"c","o","n","t","e","n","t"," ","a","n","a","l","y","s","i","s">>
\* "text processing"
S_text_processing ==
  <<"t","e","x","t"," ","p","r","o","c","e","s","s","i","n","g">>
\* "knowledge extraction"
S_knowledge_extraction ==
  <<"k","n","o","w","l","e","d","g","e"," ","e","x","t","r","a","c","t","i",
    "o","n">>
\* "Content too short to analyze"
S_too_short ==
  <<"C","o","n","t","e","n","t"," ","t","o","o"," ","s","h","o","r","t"," ",
    "t","o"," ","a","n","a","l","y","z","e">>
\* "analysis"
S_analysis ==
  <<"a","n","a","l","y","s","i","s">>
\* "summary"
S_summary ==
  <<"s","u","m","m","a","r","y">>
\* "information extraction"
S_information_extraction ==
  <<"i","n","f","o","r","m","a","t","i","o","n"," ","e","x","t","r","a","c",
    "t","i","o","n">>
\* "Content captured successfully"
S_captured ==
  <<"C","o","n","t","e","n","t"," ","c","a","p","t","u","r","e","d"," ","s",
    "u","c","c","e","s","s","f","u","l","l","y">>
\* "source analysis"
S_source_analysis ==
  <<"s","o","u","r","c","e"," ","a","n","a","l","y","s","i","s">>
\* "content extraction"
S_content_extraction ==
  <<"c","o","n","t","e","n","t"," ","e","x","t","r","a","c","t","i","o",
    "n">>
\* "knowledge graphs"
S_knowledge_graphs ==
  <<"k","n","o","w","l","e","d","g","e"," ","g","r","a","p","h","s">>
\* "Content captured successfully. AI summarization failed - using placeholder."
S_failed ==
  <<"C","o","n","t","e","n","t"," ","c","a","p","t","u","r","e","d"," ","s",
    "u","c","c","e","s","s","f","u","l","l","y","."," ","A","I"," ","s","u",
    "m","m","a","r","i","z","a","t","i","o","n"," ","f","a","i","l","e","d",
    " ","-"," ","u","s","i","n","g"," ","p","l","a","c","e","h","o","l","d",
    "e","r",".">>
\* "null"
L_null ==
  <<"n","u","l","l">>
\* "true"
L_true ==
  <<"t","r","u","e">>
\* "false"
L_false ==
  <<"f","a","l","s","e">>

\* ------------------------------------------------------------------------
\* Python values
\* ------------------------------------------------------------------------
\* A JSON / Python value is a record [t, v]: t is the type, v the payload.
\* A dict is a function from keys (character sequences) to values.
None == [t |-> "null", v |-> <<>>]
Str(s) == [t |-> "str", v |-> s]
Bool(l) == [t |-> "bool", v |-> l]
List(items) == [t |-> "list", v |-> items]
Dict(d) == [t |-> "dict", v |-> d]
EmptyDict == <<>>

\* d[k] = v on a dict: a later member with the same key replaces the earlier.
DictPut(d, k, val) ==
  [x \in (DOMAIN d) \cup {k} |-> IF x = k THEN val ELSE d[x]]

\* dict.get(key, default)
DictGet(d, k, default) == IF k \in DOMAIN d THEN d[k] ELSE default

Min(a, b) == IF a < b THEN a ELSE b
Max(a, b) == IF a > b THEN a ELSE b

\* s[start:stop] with Python's clamping of negative and oversized indices
\* (0-based, stop exclusive).
PySlice(s, start, stop) ==
  LET n == Len(s)
      lo == IF start < 0 THEN Max(n + start, 0) ELSE Min(start, n)
      hi == IF stop < 0 THEN Max(n + stop, 0) ELSE Min(stop, n)
  IN IF lo < hi THEN SubSeq(s, lo + 1, hi) ELSE <<>>

\* s[:n]
Prefix(s, n) == PySlice(s, 0, n)

\* smallest and largest element of a non-empty set of integers
Least(S) == CHOOSE k \in S : \A m \in S : k <= m
Greatest(S) == CHOOSE k \in S : \A m \in S : k >= m

\* smallest 1-based index >= i holding character c, 0 if there is none
FindFrom(s, c, i) ==
  LET at == {k \in i..Len(s) : s[k] = c}
  IN IF at = {} THEN 0 ELSE Least(at)

\* largest 1-based index <= i holding character c, 0 if there is none
RFindFrom(s, c, i) ==
  LET at == {k \in 1..i : s[k] = c}
  IN IF at = {} THEN 0 ELSE Greatest(at)

\* str.find(c) and str.rfind(c): 0-based index, -1 when absent
str_find(s, c) == FindFrom(s, c, 1) - 1
str_rfind(s, c) == RFindFrom(s, c, Len(s)) - 1

\* smallest index >= i whose character is not in the set cs, Len(s) + 1
\* if there is none
SkipChars(s, i, cs) ==
  LET at == {k \in i..Len(s) : s[k] \notin cs}
  IN IF at = {} THEN Max(i, Len(s) + 1) ELSE Least(at)

\* the characters of the alphabet that str.strip() removes
Whitespace == {" ", "\t", "\n", "\r", "\f"}

\* str.strip(): without the leading and trailing whitespace
str_strip(s) ==
  LET at == {k \in 1..Len(s) : s[k] \notin Whitespace}
  IN IF at = {} THEN <<>> ELSE SubSeq(s, Least(at), Greatest(at))

\* ------------------------------------------------------------------------
\* json.loads
\* ------------------------------------------------------------------------
\* A parse step returns [ok, val, pos]: pos is the 1-based index of the
\* first character after the value; ok is FALSE for JSONDecodeError.
ParseFail == [ok |-> FALSE, val |-> None, pos |-> 0]
ParseOk(val, p) == [ok |-> TRUE, val |-> val, pos |-> p]

\* the whitespace json.loads skips between tokens
JsonWhitespace == {" ", "\t", "\n", "\r"}
\* the control characters of the alphabet, not allowed inside a string
ControlChars == {"\t", "\n", "\r", "\f"}

SkipWs(s, i) == SkipChars(s, i, JsonWhitespace)

\* a string: opening quote at i, up to the next quote (no escapes in the
\* alphabet), without control characters
ParseString(s, i) ==
  LET j == FindFrom(s, "\"", i + 1)
  IN IF j = 0 THEN ParseFail
     ELSE IF \E k \in (i + 1)..(j - 1) : s[k] \in ControlChars THEN ParseFail
     ELSE ParseOk(Str(SubSeq(s, i + 1, j - 1)), j + 1)

\* one of the literals null, true, false starting at i
ParseLiteral(s, i, lit, val) ==
  IF i + Len(lit) - 1 <= Len(s) /\ SubSeq(s, i, i + Len(lit) - 1) = lit
  THEN ParseOk(val, i + Len(lit))
  ELSE ParseFail

RECURSIVE ParseValue(_, _)
RECURSIVE ParseMembers(_, _, _)
RECURSIVE ParseItems(_, _, _)

\* the value starting at index i
ParseValue(s, i) ==
  IF i > Len(s) THEN ParseFail
  ELSE IF s[i] = "\"" THEN ParseString(s, i)
  ELSE IF s[i] = "{" THEN
    LET j == SkipWs(s, i + 1)
    IN IF j <= Len(s) /\ s[j] = "}" THEN ParseOk(Dict(EmptyDict), j + 1)
       ELSE ParseMembers(s, j, EmptyDict)
  ELSE IF s[i] = "[" THEN
    LET j == SkipWs(s, i + 1)
    IN IF j <= Len(s) /\ s[j] = "]" THEN ParseOk(List(<<>>), j + 1)
       ELSE ParseItems(s, j, <<>>)
  ELSE IF s[i] = "n" THEN ParseLiteral(s, i, L_null, None)
  ELSE IF s[i] = "t" THEN ParseLiteral(s, i, L_true, Bool(L_true))
  ELSE IF s[i] = "f" THEN ParseLiteral(s, i, L_false, Bool(L_false))
  ELSE ParseFail

\* the members of an object from the key at index i on; d holds the members
\* read so far
ParseMembers(s, i, d) ==
  IF i > Len(s) \/ s[i] # "\"" THEN ParseFail
  ELSE
    LET key == ParseString(s, i)
    IN IF ~key.ok THEN key
       ELSE
         LET c == SkipWs(s, key.pos)
         IN IF c > Len(s) \/ s[c] # ":" THEN ParseFail
            ELSE
              LET val == ParseValue(s, SkipWs(s, c + 1))
              IN IF ~val.ok THEN val
                 ELSE
                   LET e == SkipWs(s, val.pos)
                       d2 == DictPut(d, key.val.v, val.val)
                   IN IF e > Len(s) THEN ParseFail
                      ELSE IF s[e] = "}" THEN ParseOk(Dict(d2), e + 1)
                      ELSE IF s[e] = "," THEN
                        ParseMembers(s, SkipWs(s, e + 1), d2)
                      ELSE ParseFail

\* the items of an array from the value at index i on
ParseItems(s, i, items) ==
  LET val == ParseValue(s, i)
  IN IF ~val.ok THEN val
     ELSE
       LET e == SkipWs(s, val.pos)
           items2 == Append(items, val.val)
       IN IF e > Len(s) THEN ParseFail
          ELSE IF s[e] = "]" THEN ParseOk(List(items2), e + 1)
          ELSE IF s[e] = "," THEN
            ParseItems(s, SkipWs(s, e + 1), items2)
          ELSE ParseFail

\* json.loads(s): the value, or JSONDecodeError.  The whole text must be
\* one value, surrounding whitespace allowed.
json_loads(s) ==
  LET r == ParseValue(s, SkipWs(s, 1))
  IN IF ~r.ok THEN r
     ELSE IF SkipWs(s, r.pos) = Len(s) + 1 THEN r
     ELSE ParseFail

\* ------------------------------------------------------------------------
\* summarize_with_gemini
\* ------------------------------------------------------------------------
MinTextLen == 20
InsightsLen == 150

\* the summary returned for a text that is too short (lines 77-82)
TooShortSummary ==
  K_key_concepts :> List(<<Str(S_content_analysis)>>) @@
  K_methods_used :> List(<<Str(S_text_processing)>>) @@
  K_related_topics :> List(<<Str(S_knowledge_extraction)>>) @@
  K_insights :> Str(S_too_short)

\* variant: the 100-character cut of the log line used for insights
FallbackSummaryShort(response_text) ==
  K_key_concepts :> List(<<Str(S_analysis), Str(S_summary)>>) @@
  K_methods_used :> List(<<Str(S_text_processing)>>) @@
  K_related_topics :> List(<<Str(S_information_extraction)>>) @@
  K_insights :> Str(IF Len(response_text) > 0
                    THEN Prefix(response_text, 100)
                    ELSE S_captured)

\* the summary returned when no JSON could be parsed (lines 130-135)
FallbackSummary(response_text) ==
  K_key_concepts :> List(<<Str(S_analysis), Str(S_summary)>>) @@
  K_methods_used :> List(<<Str(S_text_processing)>>) @@
  K_related_topics :> List(<<Str(S_information_extraction)>>) @@
  K_insights :> Str(IF Len(response_text) > 0
                    THEN Prefix(response_text, InsightsLen)
                    ELSE S_captured)

\* the summary returned when anything raised (lines 140-145)
FailedSummary ==
  K_key_concepts :> List(<<Str(S_source_analysis)>>) @@
  K_methods_used :> List(<<Str(S_content_extraction)>>) @@
  K_related_topics :> List(<<Str(S_knowledge_graphs)>>) @@
  K_insights :> Str(S_failed)

\* How a run of the function ends: the value returned, or an exception,
\* with the number of generate_content calls it made.  exc is "Exception"
\* for an exception that except Exception catches, "BaseException" for one
\* it does not (KeyboardInterrupt, SystemExit).
Return(val, n) ==
  [raised |-> FALSE, exc |-> "none", value |-> val, calls |-> n]
Raise(exc, n) ==
  [raised |-> TRUE, exc |-> exc, value |-> EmptyDict, calls |-> n]

\* The analysis service as seen by one invocation:
\*   model1: whether GenerativeModel(...) succeeds for the first model
\*           name (the bare except of line 104 catches whatever it raises);
\*   model2: what it does for the fallback name: "ok", "raise" (an
\*           Exception) or "interrupt" (a BaseException that is no
\*           Exception);
\*   generate: "raise"     generate_content raises an Exception,
\*             "interrupt" it raises a BaseException that is no Exception,
\*             "none"      it returns no response object (response.text
\*                         raises AttributeError),
\*             "blocked"   the response carries no text (response.text
\*                         raises an Exception),
\*             "text_interrupt" reading response.text raises a
\*                         BaseException that is no Exception,
\*             "text"      response.text is the string text.
Env(m1, m2, g, txt) ==
  [model1 |-> m1, model2 |-> m2, generate |-> g, text |-> txt]

\* lines 114-135: the response text to the summary
ParseResponse(response_text) ==
  LET json_start == str_find(response_text, "{")
      json_end == str_rfind(response_text, "}") + 1
      inSpan == json_start # -1 /\ json_end > json_start
      parsed == IF inSpan
                THEN json_loads(PySlice(response_text, json_start, json_end))
                ELSE ParseFail
  IN IF inSpan /\ parsed.ok THEN Return(parsed.val.v, 1)
     ELSE Return(FallbackSummary(response_text), 1)

\* lines 102-110: the model built, generate_content called once and the
\* text of the response read; then lines 114-135
CallAndParse(env) ==
  IF ~env.model1 /\ env.model2 = "raise" THEN Raise("Exception", 0)
  ELSE IF ~env.model1 /\ env.model2 = "interrupt"
  THEN Raise("BaseException", 0)
  ELSE IF env.generate \in {"interrupt", "text_interrupt"}
  THEN Raise("BaseException", 1)
  ELSE IF env.generate # "text" THEN Raise("Exception", 1)
  ELSE ParseResponse(env.text)

\* variant: the length test on the text as given, not stripped
SummarizeTryNoStrip(text, env) ==
  IF Len(text) = 0 \/ Len(text) < MinTextLen
  THEN Return(TooShortSummary, 0)
  ELSE CallAndParse(env)

\* the body of the outer try (lines 74-135)
SummarizeTry(text, env) ==
  IF Len(text) = 0 \/ Len(str_strip(text)) < MinTextLen
  THEN Return(TooShortSummary, 0)
  ELSE CallAndParse(env)

\* lines 136-145: except Exception turns what it catches into the failure
\* summary and lets any other exception pass
ExceptException(r) ==
  IF r.raised /\ r.exc = "Exception" THEN Return(FailedSummary, r.calls)
  ELSE r

\* variant: without the outer except
summarize_uncaught(text, env) == SummarizeTry(text, env)

\* summarize_with_gemini(text)
summarize_with_gemini(text, env) == ExceptException(SummarizeTry(text, env))

\* ------------------------------------------------------------------------
\* Relatedness edges (get_nodes, lines 222-257)
\* ------------------------------------------------------------------------
\* set(x): [ok |-> FALSE] stands for the TypeError raised for a value that
\* is not iterable or has an unhashable element.
Hashable(val) == val.t \in {"str", "bool", "null"}

Range(q) == {q[k] : k \in DOMAIN q}

PySet(val) ==
  IF val.t = "list" THEN
    IF \A k \in DOMAIN val.v : Hashable(val.v[k])
    THEN [ok |-> TRUE, s |-> Range(val.v)]
    ELSE [ok |-> FALSE, s |-> {}]
  ELSE IF val.t = "str" THEN
    [ok |-> TRUE, s |-> {Str(<<val.v[k]>>) : k \in DOMAIN val.v}]
  ELSE IF val.t = "dict" THEN
    [ok |-> TRUE, s |-> {Str(k) : k \in DOMAIN val.v}]
  ELSE [ok |-> FALSE, s |-> {}]

RECURSIVE GCD(_, _)
GCD(a, b) == IF b = 0 THEN a ELSE GCD(b, a % b)

\* intersection / union: the quotient is kept as a fraction in lowest
\* terms, so that equal quotients are equal values
Quotient(a, b) == [num |-> a \div GCD(a, b), den |-> b \div GCD(a, b)]

\* similarity >= 0.1 (line 251): the float quotient of two small integers
\* is at least the float 0.1 exactly when a/b >= 1/10
ThresholdNum == 1
ThresholdDen == 10
\* variant: strictly above the threshold
AboveThresholdStrict(w) == w.num * ThresholdDen > ThresholdNum * w.den
AboveThreshold(w) == w.num * ThresholdDen >= ThresholdNum * w.den

\* lines 230-239 for one node: key concepts | methods
Combined(node) ==
  LET concepts == PySet(DictGet(node.summary, K_key_concepts, List(<<>>)))
      methods == PySet(DictGet(node.summary, K_methods_used, List(<<>>)))
  IN [ok |-> concepts.ok /\ methods.ok, s |-> concepts.s \cup methods.s]

\* variant: the edge written from nodes[j] to nodes[i]
PairEdgesSwapped(node_i, node_j) ==
  LET combined_i == Combined(node_i)
      combined_j == Combined(node_j)
  IN IF ~combined_i.ok \/ ~combined_j.ok THEN [ok |-> FALSE, edges |-> <<>>]
     ELSE IF combined_i.s # {} /\ combined_j.s # {} THEN
       LET intersection == Cardinality(combined_i.s \cap combined_j.s)
           union == Cardinality(combined_i.s \cup combined_j.s)
           similarity == Quotient(intersection, union)
       IN IF AboveThreshold(similarity)
          THEN [ok |-> TRUE,
                edges |-> << [source |-> node_j.id, target |-> node_i.id,
                              weight |-> similarity] >>]
          ELSE [ok |-> TRUE, edges |-> <<>>]
     ELSE [ok |-> TRUE, edges |-> <<>>]

\* the body of the inner loop (lines 230-257) for nodes[i], nodes[j]:
\* the edges it appends, or the TypeError
PairEdges(node_i, node_j) ==
  LET combined_i == Combined(node_i)
      combined_j == Combined(node_j)
  IN IF ~combined_i.ok \/ ~combined_j.ok THEN [ok |-> FALSE, edges |-> <<>>]
     ELSE IF combined_i.s # {} /\ combined_j.s # {} THEN
       LET intersection == Cardinality(combined_i.s \cap combined_j.s)
           union == Cardinality(combined_i.s \cup combined_j.s)
           similarity == Quotient(intersection, union)
       IN IF AboveThreshold(similarity)
          THEN [ok |-> TRUE,
                edges |-> << [source |-> node_i.id, target |-> node_j.id,
                              weight |-> similarity] >>]
          ELSE [ok |-> TRUE, edges |-> <<>>]
     ELSE [ok |-> TRUE, edges |-> <<>>]

\* variant: the inner loop starting at i itself
FirstJSame(i) == i

\* first value of j for a given i (line 228)
FirstJ(i) == i + 1

RECURSIVE EdgeLoop(_, _, _, _)
\* the two nested loops (lines 227-228), 1-based, from position (i, j) on
EdgeLoop(nodes, i, j, edges) ==
  IF i > Len(nodes) THEN [ok |-> TRUE, edges |-> edges]
  ELSE IF j > Len(nodes) THEN EdgeLoop(nodes, i + 1, FirstJ(i + 1), edges)
  ELSE
    LET pe == PairEdges(nodes[i], nodes[j])
    IN IF ~pe.ok THEN [ok |-> FALSE, edges |-> <<>>]
       ELSE EdgeLoop(nodes, i, j + 1, edges \o pe.edges)

\* the edge list over a node list
BuildEdges(nodes) == EdgeLoop(nodes, 1, FirstJ(1), <<>>)

\* ------------------------------------------------------------------------
\* The database and the two endpoints
\* ------------------------------------------------------------------------
VARIABLES
  database,   \* contents of database.json: [nodes, next_id]
  response,   \* the last HTTP response: [op, status, body]
  sum_in,     \* summarize_with_gemini alone: its input [text, env]
  sum_out,    \* ... and how the call ended, NoCall before it
  pair_in,    \* edge construction alone: a sequence of two nodes
  pair_out    \* ... and the edges over it and over its reversal

vars == <<database, response, sum_in, sum_out, pair_in, pair_out>>

\* load_database() when database.json does not exist (line 43)
EmptyDatabase == [nodes |-> <<>>, next_id |-> 1]

NoResponse == [op |-> "none", status |-> 0, body |-> <<>>]

\* the values get_nodes reads or that identify a node; title, content,
\* full_content, source and created_at are written once and never read
NewNode(db, source_type, summary) ==
  [id |-> db.next_id,
   source_type |-> source_type,
   summary |-> summary,
   tags |-> DictGet(summary, K_key_concepts, List(<<>>))]

StartsWith(s, p) == Len(s) >= Len(p) /\ SubSeq(s, 1, Len(p)) = p

S_http == <<"h","t","t","p">>

HttpError(op, code) == [op |-> op, status |-> code, body |-> <<>>]

\* variant: the counter not incremented
NextIdAfterSame(n) == n

\* next_id after an insertion (line 192)
NextIdAfter(n) == n + 1

\* lines 188-199: the node appended, the counter incremented, the database
\* saved and the node returned
Stored(db, new_node) ==
  [db |-> [nodes |-> Append(db.nodes, new_node),
           next_id |-> NextIdAfter(db.next_id)],
   resp |-> [op |-> "add_source", status |-> 200, body |-> new_node]]

\* the call ended by an exception that neither except clause of the
\* handler catches: no response of the handler, nothing saved
Interrupted(db) ==
  [db |-> db, resp |-> [op |-> "add_source", status |-> 0, body |-> <<>>]]

\* lines 173-199 for the outcome r of summarize_with_gemini: an exception
\* that left it is no Exception and leaves the handler too
StoreSummary(db, source_type, r) ==
  IF r.raised THEN Interrupted(db)
  ELSE Stored(db, NewNode(db, source_type, r.value))

\* add_source (lines 148-207).  repo_url and text_snippet are strings, the
\* empty one standing for None as well; fetched is what
\* fetch_github_content returns, [ok |-> FALSE] for None; env is the
\* analysis service during the call.  Returns the database saved and the
\* response.
add_source(db, repo_url, text_snippet, fetched, env) ==
  LET github == Len(repo_url) > 0 /\ StartsWith(repo_url, S_http)
      manual == Len(text_snippet) > 0 /\ Len(str_strip(text_snippet)) > 0
  IN IF github /\ ~fetched.ok
     THEN [db |-> db, resp |-> HttpError("add_source", 400)]
     ELSE IF ~github /\ ~manual
     THEN [db |-> db, resp |-> HttpError("add_source", 400)]
     ELSE
       LET content == IF github THEN fetched.text ELSE text_snippet
           source_type == IF github THEN "github" ELSE "manual"
       IN StoreSummary(db, source_type, summarize_with_gemini(content, env))

\* variant: the edges computed over the page returned
EdgeNodesPage(db, limit, offset) == PySlice(db.nodes, offset, offset + limit)

\* the node list the edges are computed over (line 223)
EdgeNodes(db, limit, offset) == db.nodes

\* get_nodes (lines 210-270)
get_nodes(db, limit, offset) ==
  LET total_nodes == Len(db.nodes)
      paginated_nodes == PySlice(db.nodes, offset, offset + limit)
      built == BuildEdges(EdgeNodes(db, limit, offset))
  IN IF ~built.ok THEN HttpError("get_nodes", 500)
     ELSE [op |-> "get_nodes", status |-> 200,
           body |-> [nodes |-> paginated_nodes, edges |-> built.edges,
                     total |-> total_nodes, limit |-> limit,
                     offset |-> offset]]

\* ------------------------------------------------------------------------
\* Inputs
\* ------------------------------------------------------------------------
MaxNodes == 3     \* add_source is explored up to this many stored nodes
ExtraLen == 1     \* the long response has InsightsLen + ExtraLen characters
DefaultLimit == 50
NestedDepth == 10 \* the nesting of the deepest response explored

Repeat(c, n) == [k \in 1..n |-> c]

RECURSIVE Join(_, _)
Join(parts, sep) ==
  IF parts = <<>> THEN <<>>
  ELSE IF Len(parts) = 1 THEN parts[1]
  ELSE parts[1] \o sep \o Join(Tail(parts), sep)

\* JSON text of a string, a list, an object member, an object
JStr(s) == <<"\"">> \o s \o <<"\"">>
JList(items) == <<"[">> \o Join(items, <<",">>) \o <<"]">>
JMember(k, v) == JStr(k) \o <<":">> \o v
JObject(members) == <<"{">> \o Join(members, <<",">>) \o <<"}">>
\* JSON text of a list of one-letter labels
JLabels(cs) == JList([k \in DOMAIN cs |-> JStr(<<cs[k]>>)])

\* the record the prompt asks for: all four fields
JSummary(kc, mu, rt) ==
  JObject(<< JMember(K_key_concepts, JLabels(kc)),
             JMember(K_methods_used, JLabels(mu)),
             JMember(K_related_topics, JLabels(rt)),
             JMember(K_insights, JStr(<<"o","k">>)) >>)

T_A == JSummary(<<"a","b","c","d">>, <<"e">>, <<"z">>)
T_B == JSummary(<<"e","f","g","h","i">>, <<"j">>, <<>>)
T_B11 == JSummary(<<"e","f","g","h","i","k">>, <<"j">>, <<"a","b","c","d">>)
T_prose == <<"n","o"," ","j","s","o","n">>
\* wrapped in prose before and after
T_wrapped == <<"o","k",":"," ">> \o T_A \o <<" ","o","k">>
\* related topics only, the other three fields missing
T_partial ==
  JObject(<< JMember(K_related_topics, JLabels(<<"a","e">>)) >>)
T_no_concepts ==
  JObject(<< JMember(K_methods_used, JLabels(<<"e">>)),
             JMember(K_related_topics, JLabels(<<"z">>)),
             JMember(K_insights, JStr(<<"o","k">>)) >>)
T_no_insights ==
  JObject(<< JMember(K_key_concepts, JLabels(<<"a">>)),
             JMember(K_methods_used, JLabels(<<"e">>)),
             JMember(K_related_topics, JLabels(<<"z">>)) >>)
T_empty_object == <<"{", "}">>
T_null_concepts ==
  JObject(<< JMember(K_key_concepts, L_null),
             JMember(K_methods_used, JLabels(<<"e">>)),
             JMember(K_related_topics, JLabels(<<"z">>)),
             JMember(K_insights, JStr(<<"o","k">>)) >>)
T_string_concepts ==
  JObject(<< JMember(K_key_concepts, JStr(<<"a","e">>)),
             JMember(K_methods_used, JLabels(<<>>)),
             JMember(K_related_topics, JLabels(<<>>)),
             JMember(K_insights, JStr(<<"o","k">>)) >>)
T_nested_methods ==
  JObject(<< JMember(K_key_concepts, JLabels(<<"a">>)),
             JMember(K_methods_used, JList(<<JLabels(<<"e">>)>>)),
             JMember(K_related_topics, JLabels(<<>>)),
             JMember(K_insights, JStr(<<"o","k">>)) >>)
T_duplicate_key ==
  JObject(<< JMember(K_key_concepts, JLabels(<<"a">>)),
             JMember(K_key_concepts, JLabels(<<"b">>)) >>)
\* texts with braces whose span is not JSON
T_unclosed == <<"{">> \o JMember(K_insights, JStr(<<"o","k">>))
T_reversed == <<"}", " ", "{">>
T_two_objects == T_A \o <<" ">> \o T_A
T_bad_span == <<"{", "o", "k", "}">>
T_trailing_comma == <<"{">> \o JMember(K_insights, JStr(<<"o","k">>))
                    \o <<",", "}">>
T_long_prose == Repeat("a", InsightsLen + ExtraLen)
T_exact_prose == Repeat("a", InsightsLen)
T_long_bad_span == <<"{">> \o Repeat("a", InsightsLen + ExtraLen) \o <<"}">>
\* whitespace between the tokens, as a pretty-printed answer has
T_pretty ==
  <<"{", "\n", "\t">> \o JStr(K_key_concepts) \o <<" ", ":", "\r", "\n">>
  \o <<"[", "\n">> \o JStr(<<"a">>) \o <<"\t", ",", " ">> \o JStr(<<"b">>)
  \o <<"\n", "]", "\n", "}", "\n">>
\* a line feed inside a string, a form feed between tokens
T_newline_in_string ==
  JObject(<< JMember(K_insights, JStr(<<"o", "\n", "k">>)) >>)
T_form_feed == <<"{", "\f", "}">>
\* arrays nested NestedDepth deep inside the object
T_nested ==
  JObject(<< JMember(K_key_concepts,
                     Repeat("[", NestedDepth) \o Repeat("]", NestedDepth)) >>)

\* source texts around the length threshold
LongText == Repeat("a", MinTextLen)
ShortText == Repeat("a", MinTextLen - 1)
SourceTexts ==
  { <<>>, <<" ", " ">>, <<"\n">>, ShortText, LongText,
    <<" ">> \o ShortText \o <<" ", " ">>,
    <<"\n">> \o ShortText \o <<"\n">>,
    ShortText \o <<"\r", "\n">>,
    <<"\f", "\t">> \o ShortText,
    Repeat("\t", MinTextLen + ExtraLen),
    <<" ">> \o LongText,
    <<"\n">> \o LongText \o <<"\n">>,
    Repeat("a", MinTextLen - 2) \o <<" ", "a">>,
    Repeat("a", MinTextLen - 2) \o <<"\n", "a">>,
    Repeat("a", MinTextLen + ExtraLen) }

ResponseTexts ==
  { <<>>, T_prose, T_long_prose, T_exact_prose, T_long_bad_span,
    T_A, T_B, T_wrapped, T_partial, T_no_concepts, T_no_insights,
    T_empty_object, T_null_concepts, T_string_concepts, T_nested_methods,
    T_duplicate_key, T_unclosed, T_reversed, T_two_objects, T_bad_span,
    T_trailing_comma, T_pretty, T_newline_in_string, T_form_feed,
    T_nested }

Answers(txt) == Env(TRUE, "ok", "text", txt)

\* the analysis service failing in each possible place with an Exception
FailingEnvs ==
  { Env(FALSE, "raise", "text", T_A),
    Env(TRUE, "ok", "raise", <<>>),
    Env(FALSE, "ok", "raise", <<>>),
    Env(TRUE, "ok", "none", <<>>),
    Env(TRUE, "ok", "blocked", <<>>) }

\* the call interrupted by an exception that is no Exception
InterruptedEnvs ==
  { Env(TRUE, "ok", "interrupt", <<>>),
    Env(TRUE, "ok", "text_interrupt", <<>>),
    Env(FALSE, "ok", "text_interrupt", <<>>),
    Env(FALSE, "ok", "interrupt", <<>>),
    Env(FALSE, "interrupt", "text", T_A) }

SummarizeEnvs ==
  {Answers(txt) : txt \in ResponseTexts} \cup FailingEnvs
  \cup InterruptedEnvs
  \cup { Env(FALSE, "ok", "text", T_A), Env(TRUE, "raise", "text", T_prose),
         Env(TRUE, "interrupt", "text", T_A) }

\* add_source requests with what the collaborators do during each
Request(url, snippet, fetched, env) ==
  [repo_url |-> url, text_snippet |-> snippet, fetched |-> fetched,
   env |-> env]
NotFetched == [ok |-> FALSE, text |-> <<>>]
Fetched(txt) == [ok |-> TRUE, text |-> txt]
S_url == S_http \o <<":", "/", "/", "x">>

AddRequests ==
  { Request(<<>>, LongText, NotFetched, Answers(txt)) :
      txt \in {T_A, T_B, T_B11, T_partial, T_null_concepts} }
  \cup
  { Request(<<>>, <<"\n">> \o ShortText, NotFetched, Answers(T_A)),
    Request(S_url, <<>>, Fetched(<<"\n">> \o LongText \o <<"\n">>),
            Answers(T_A)),
    Request(<<>>, LongText, NotFetched, Env(TRUE, "ok", "interrupt", <<>>)),
    Request(S_url, LongText, NotFetched, Answers(T_A)),
    Request(<<"x">>, <<>>, NotFetched, Answers(T_A)),
    Request(<<>>, <<" ">>, NotFetched, Answers(T_A)),
    Request(<<>>, <<"\t", " ", "\n">>, NotFetched, Answers(T_A)) }

Limits == {1, DefaultLimit}
Offsets == {-1, 0}

\* ------------------------------------------------------------------------
\* Specification: requests served one at a time, from an empty database
\* ------------------------------------------------------------------------
NoCall ==
  [raised |-> FALSE, exc |-> "none", value |-> EmptyDict, calls |-> -1]
NoInput == [text |-> <<>>, env |-> Env(TRUE, "ok", "raise", <<>>)]
NoPair == [ok |-> FALSE, edges |-> <<>>]
NoEdges == [forward |-> NoPair, backward |-> NoPair, built |-> FALSE]

Init ==
  /\ database = EmptyDatabase
  /\ response = NoResponse
  /\ sum_in = NoInput
  /\ sum_out = NoCall
  /\ pair_in = <<>>
  /\ pair_out = NoEdges

AddSource ==
  \E req \in AddRequests :
    \E r \in {add_source(database, req.repo_url, req.text_snippet,
                         req.fetched, req.env)} :
      /\ r.resp.status = 200 => Len(database.nodes) < MaxNodes
      /\ database' = r.db
      /\ response' = r.resp
      /\ UNCHANGED <<sum_in, sum_out, pair_in, pair_out>>

GetNodes ==
  \E limit \in Limits, offset \in Offsets :
    /\ response' = get_nodes(database, limit, offset)
    /\ UNCHANGED <<database, sum_in, sum_out, pair_in, pair_out>>

Next == AddSource \/ GetNodes

Spec == Init /\ [][Next]_vars

\* ------------------------------------------------------------------------
\* Specification: summarize_with_gemini on its own
\* ------------------------------------------------------------------------
InitSummarize ==
  /\ database = EmptyDatabase
  /\ response = NoResponse
  /\ sum_in \in [text : SourceTexts, env : SummarizeEnvs]
  /\ sum_out = NoCall
  /\ pair_in = <<>>
  /\ pair_out = NoEdges

Summarize ==
  /\ sum_out = NoCall
  /\ sum_out' = summarize_with_gemini(sum_in.text, sum_in.env)
  /\ UNCHANGED <<database, response, sum_in, pair_in, pair_out>>

NextSummarize == Summarize

SpecSummarize == InitSummarize /\ [][NextSummarize]_vars

\* ------------------------------------------------------------------------
\* Specification: edge construction on its own, over two nodes in either
\* order
\* ------------------------------------------------------------------------
PairIds == 1..3

PairSummaries ==
  { summarize_with_gemini(LongText, env).value :
      env \in { Answers(txt) :
                  txt \in { T_prose, T_A, T_B, T_B11, T_partial,
                            T_empty_object, T_null_concepts,
                            T_string_concepts, T_nested_methods } }
               \cup {Env(TRUE, "ok", "raise", <<>>)} }
  \cup {summarize_with_gemini(ShortText, Answers(T_A)).value}

PairNode(id, summary) ==
  [id |-> id, source_type |-> "manual", summary |-> summary,
   tags |-> DictGet(summary, K_key_concepts, List(<<>>))]

InitPair ==
  /\ database = EmptyDatabase
  /\ response = NoResponse
  /\ sum_in = NoInput
  /\ sum_out = NoCall
  /\ \E ia \in PairIds, ib \in PairIds, sa \in PairSummaries,
        sb \in PairSummaries :
       /\ ia # ib
       /\ pair_in = <<PairNode(ia, sa), PairNode(ib, sb)>>
  /\ pair_out = NoEdges

BuildPair ==
  /\ ~pair_out.built
  /\ pair_out' = [forward |-> BuildEdges(pair_in),
                  backward |-> BuildEdges(<<pair_in[2], pair_in[1]>>),
                  built |-> TRUE]
  /\ UNCHANGED <<database, response, sum_in, sum_out, pair_in>>

NextPair == BuildPair

SpecPair == InitPair /\ [][NextPair]_vars

\* ------------------------------------------------------------------------
\* Properties
\* ------------------------------------------------------------------------
SummaryKeys == {K_key_concepts, K_methods_used, K_related_topics, K_insights}

Called == sum_out # NoCall
TrimmedLen == Len(str_strip(sum_in.text))
\* the analysis service answered with the text sum_in.env.text
Answered ==
  /\ sum_in.env.model1 \/ sum_in.env.model2 = "ok"
  /\ sum_in.env.generate = "text"

\* a summary given by its four values
Summary4(kc, mu, rt, insights) ==
  [k \in SummaryKeys |->
     IF k = K_key_concepts THEN List([x \in DOMAIN kc |-> Str(kc[x])])
     ELSE IF k = K_methods_used THEN List([x \in DOMAIN mu |-> Str(mu[x])])
     ELSE IF k = K_related_topics THEN List([x \in DOMAIN rt |-> Str(rt[x])])
     ELSE Str(insights)]

ExpectedTooShort ==
  Summary4(<<S_content_analysis>>, <<S_text_processing>>,
           <<S_knowledge_extraction>>, S_too_short)
ExpectedFallback(insights) ==
  Summary4(<<S_analysis, S_summary>>, <<S_text_processing>>,
           <<S_information_extraction>>, insights)
ExpectedFailed ==
  Summary4(<<S_source_analysis>>, <<S_content_extraction>>,
           <<S_knowledge_graphs>>, S_failed)

IsPlaceholder(summary) ==
  \/ summary = ExpectedTooShort
  \/ summary = ExpectedFailed
  \/ \E n \in 0..Min(InsightsLen, Len(sum_in.env.text)) :
       summary = ExpectedFallback(SubSeq(sum_in.env.text, 1, n))
  \/ summary = ExpectedFallback(S_captured)

\* the text has no '{'...'}' span, or json.loads raises JSONDecodeError
\* on its span
Unparseable(txt) ==
  LET first == {k \in DOMAIN txt : txt[k] = "{"}
      last == {k \in DOMAIN txt : txt[k] = "}"}
  IN \/ first = {}
     \/ last = {}
     \/ Greatest(last) < Least(first)
     \/ ~json_loads(SubSeq(txt, Least(first), Greatest(last))).ok

\* C1: summarize_with_gemini returns a record with all four fields or one
\* of the three placeholders, never a record with a field missing; so every
\* stored node has a summary with all four fields.
C1_NeverPartial ==
  /\ (Called /\ ~sum_out.raised) =>
       \/ SummaryKeys \subseteq DOMAIN sum_out.value
       \/ IsPlaceholder(sum_out.value)
  /\ \A k \in DOMAIN database.nodes :
       SummaryKeys \subseteq DOMAIN database.nodes[k].summary

\* C6 as stated: for a text of trimmed length >= 20 and any response,
\* the empty one included, that has no span or an unparseable span, the
\* result is the second placeholder with insights = the first
\* min(150, length) characters of the response.
C6_Original ==
  (Called /\ TrimmedLen >= 20 /\ Answered /\ Unparseable(sum_in.env.text)) =>
    sum_out.value =
      ExpectedFallback(SubSeq(sum_in.env.text, 1,
                              Min(150, Len(sum_in.env.text))))

\* C6 amended: the same for a non-empty response that has no span or on
\* whose span json.loads raises JSONDecodeError; for the empty response
\* insights is "Content captured successfully".
C6_FallbackInsights ==
  (Called /\ TrimmedLen >= 20 /\ Answered /\ Unparseable(sum_in.env.text)) =>
    /\ ~sum_out.raised
    /\ sum_out.value =
         ExpectedFallback(
           IF sum_in.env.text = <<>> THEN S_captured
           ELSE SubSeq(sum_in.env.text, 1, Min(150, Len(sum_in.env.text))))

C6_Witness ==
  /\ Called /\ TrimmedLen >= 20 /\ Answered
  /\ "\n" \in Range(sum_in.text)
  /\ Unparseable(sum_in.env.text)
  /\ Len(sum_in.env.text) > 150
  /\ "{" \in Range(sum_in.env.text)
  /\ Len(sum_out.value[K_insights].v) = 150

\* the analysis call fails with an exception of class Exception: no model
\* can be built, generate_content raises, or there is no usable response
Fails(env) ==
  \/ ~env.model1 /\ env.model2 = "raise"
  \/ /\ env.model1 \/ env.model2 = "ok"
     /\ env.generate \in {"raise", "none", "blocked"}

\* the analysis call is ended by an exception that is no Exception,
\* raised by the fallback model constructor, by generate_content or by
\* reading response.text
FailsOtherwise(env) ==
  \/ ~env.model1 /\ env.model2 = "interrupt"
  \/ /\ env.model1 \/ env.model2 = "ok"
     /\ env.generate \in {"interrupt", "text_interrupt"}

C8_TooShortNoCall ==
  (Called /\ TrimmedLen < 20) =>
    /\ ~sum_out.raised
    /\ sum_out.calls = 0
    /\ sum_out.value = ExpectedTooShort

C8_Witness ==
  /\ Called
  /\ TrimmedLen = 19 /\ Len(sum_in.text) > 20
  /\ "\n" \in Range(sum_in.text)
  /\ Fails(sum_in.env)
  /\ sum_out.value[K_insights] = Str(S_too_short)

GotNodes == response.op = "get_nodes" /\ response.status = 200

\* the labels of one field of a summary, as the claims count them
FieldLabels(summary, key) ==
  IF key \notin DOMAIN summary THEN {}
  ELSE IF summary[key].t = "list" THEN Range(summary[key].v)
  ELSE IF summary[key].t = "str"
    THEN {Str(<<summary[key].v[k]>>) : k \in DOMAIN summary[key].v}
  ELSE {}

ConceptsAndMethods(node) ==
  FieldLabels(node.summary, K_key_concepts)
    \cup FieldLabels(node.summary, K_methods_used)

\* the positions in the edge list of the edges joining ids a and b
EdgesJoining(edges, a, b) ==
  {k \in DOMAIN edges : {edges[k].source, edges[k].target} = {a, b}}

\* C2: the edge list holds, for each pair of distinct nodes, exactly one
\* edge if both combined sets (key_concepts and methods_used) are
\* non-empty and |intersection| / |union| >= 0.1, weighted by that ratio,
\* and no edge otherwise; fewer than two nodes give no edges.
C2_EdgesExactlyAboveThreshold ==
  GotNodes =>
    LET nodes == database.nodes
        edges == response.body.edges
    IN /\ \A i \in DOMAIN nodes, j \in DOMAIN nodes :
            i < j =>
              LET ci == ConceptsAndMethods(nodes[i])
                  cj == ConceptsAndMethods(nodes[j])
                  inter == Cardinality(ci \cap cj)
                  union == Cardinality(ci \cup cj)
                  joining == EdgesJoining(edges, nodes[i].id, nodes[j].id)
              IN IF ci # {} /\ cj # {} /\ 10 * inter >= union
                 THEN /\ Cardinality(joining) = 1
                      /\ \A k \in joining :
                           edges[k].weight.num * union =
                             edges[k].weight.den * inter
                 ELSE joining = {}
       /\ \A k \in DOMAIN edges :
            \E i \in DOMAIN nodes, j \in DOMAIN nodes :
              i # j /\ k \in EdgesJoining(edges, nodes[i].id, nodes[j].id)
       /\ Len(nodes) <= 1 => edges = <<>>

C2_Witness ==
  /\ GotNodes
  /\ Len(database.nodes) = 3
  /\ \E k \in DOMAIN response.body.edges :
       response.body.edges[k].weight = [num |-> 1, den |-> 10]
  /\ \E i \in DOMAIN database.nodes, j \in DOMAIN database.nodes :
       /\ i < j
       /\ ConceptsAndMethods(database.nodes[i]) # {}
       /\ ConceptsAndMethods(database.nodes[j]) # {}
       /\ Cardinality(ConceptsAndMethods(database.nodes[i])
                        \cup ConceptsAndMethods(database.nodes[j])) = 11
       /\ EdgesJoining(response.body.edges, database.nodes[i].id,
                       database.nodes[j].id) = {}

\* C3: every edge returned has source < target, and no two edges of one
\* edge list join the same pair of ids.
C3_CanonicalEdges ==
  GotNodes =>
    LET edges == response.body.edges
    IN /\ \A k \in DOMAIN edges : edges[k].source < edges[k].target
       /\ \A k \in DOMAIN edges, m \in DOMAIN edges :
            k # m =>
              {edges[k].source, edges[k].target}
                # {edges[m].source, edges[m].target}

C3_Witness ==
  /\ GotNodes
  /\ Len(response.body.edges) = 3

Rejected(resp) == resp.op = "add_source" /\ resp.status = 400

IdsInOrder(db) ==
  /\ \A i \in DOMAIN db.nodes, j \in DOMAIN db.nodes :
       i < j => db.nodes[i].id < db.nodes[j].id
  /\ \A i \in DOMAIN db.nodes : db.nodes[i].id < db.next_id

\* C4: stored ids are distinct and strictly increasing in list order,
\* next_id is above them all, and a rejected add_source leaves the node
\* list and next_id unchanged.
C4_IdsAndRejection ==
  /\ [](IdsInOrder(database))
  /\ [][Rejected(response') => database' = database]_vars

C4_Witness ==
  /\ Rejected(response)
  /\ Len(database.nodes) = 3
  /\ database.next_id = 4

OneEdge(r) == r.ok /\ Len(r.edges) = 1

\* C5 as stated: over [A, B] and over [B, A] there is no edge in both
\* cases, or in both one edge with source = min id, target = max id and
\* the same weight.
C5_Original ==
  pair_out.built =>
    LET lo == Min(pair_in[1].id, pair_in[2].id)
        hi == Max(pair_in[1].id, pair_in[2].id)
    IN \/ pair_out.forward.edges = <<>> /\ pair_out.backward.edges = <<>>
       \/ /\ OneEdge(pair_out.forward) /\ OneEdge(pair_out.backward)
          /\ pair_out.forward.edges = pair_out.backward.edges
          /\ pair_out.forward.edges[1].source = lo
          /\ pair_out.forward.edges[1].target = hi

\* C5 amended: both orders end the same way (no edge, or the same
\* failure); or both give one edge, of the same weight, joining the two
\* ids, whose source is the id of the node that comes first in the
\* sequence and whose target that of the second.
C5_SameEdgeInSequenceOrder ==
  pair_out.built =>
    /\ pair_out.forward.ok = pair_out.backward.ok
    /\ Len(pair_out.forward.edges) = Len(pair_out.backward.edges)
    /\ Len(pair_out.forward.edges) <= 1
    /\ OneEdge(pair_out.forward) =>
         /\ pair_out.forward.edges[1].weight
              = pair_out.backward.edges[1].weight
         /\ pair_out.forward.edges[1].source = pair_in[1].id
         /\ pair_out.forward.edges[1].target = pair_in[2].id
         /\ pair_out.backward.edges[1].source = pair_in[2].id
         /\ pair_out.backward.edges[1].target = pair_in[1].id

C5_Witness ==
  /\ pair_out.built
  /\ OneEdge(pair_out.forward) /\ OneEdge(pair_out.backward)
  /\ pair_in[1].id > pair_in[2].id
  /\ pair_out.forward.edges[1].weight = [num |-> 1, den |-> 10]

\* C9: the edges and the total do not depend on limit and offset: they
\* are those of the whole node list, also when an endpoint is outside the
\* page returned; and get_nodes leaves the database as it was.
C9_EdgesIgnorePagination ==
  /\ [](GotNodes =>
          /\ response.body.total = Len(database.nodes)
          /\ get_nodes(database, DefaultLimit, 0).status = 200
          /\ response.body.edges
               = get_nodes(database, DefaultLimit, 0).body.edges
          /\ \A limit \in Limits, offset \in Offsets :
               LET other == get_nodes(database, limit, offset)
               IN /\ other.status = 200
                  /\ other.body.edges = response.body.edges
                  /\ other.body.total = response.body.total)
  /\ [](response.op = "get_nodes" /\ response.status # 200 =>
          \A limit \in Limits, offset \in Offsets :
            get_nodes(database, limit, offset) = response)
  /\ [][response'.op = "get_nodes" => database' = database]_vars

C9_Witness ==
  /\ GotNodes
  /\ Len(response.body.nodes) = 1
  /\ \E k \in DOMAIN response.body.edges :
       /\ response.body.edges[k].source # response.body.nodes[1].id
       /\ response.body.edges[k].target # response.body.nodes[1].id

\* C10: whatever the analysis service answered during the ingestions,
\* get_nodes completes with an edge list and never ends in an error.
C10_GetNodesNeverFails ==
  response.op = "get_nodes" => response.status = 200
====
